---- MODULE Spec2Model ----
(***************************************************************************)
(* Model of steam/trade.py: TradeOffer (construction, item resolution,     *)
(* update, accept / decline / cancel) and Inventory (construction).        *)
(*                                                                         *)
(* A coroutine of trade.py runs atomically between two awaits, so every    *)
(* action below is one such segment: from a call or from the resumption of *)
(* an await up to the next await, the return or the raise.                 *)
(*                                                                         *)
(* Optional values (Python None or a value) are <<>> or <<v>>.             *)
(***************************************************************************)
EXTENDS Integers, Sequences, FiniteSets, TLC

VARIABLES
    offer,     \* the TradeOffer object: its slots
    ready,     \* TRUE once the first _async__init__ has set the item slots
    tasks,     \* the coroutines running on the offer, one record per caller
    events,    \* what _state.dispatch was called with, in order
    calls,     \* number of update/accept/decline/cancel calls made so far
    callers,   \* the callers there are: one calls in sequence, two may overlap
    emitted,   \* events dispatched since construction or the last update
    payload,   \* the dict handed to Inventory(...); Inventory._data aliases it
    payload0,  \* contents of that dict at the time of the call
    inventory  \* the Inventory object: items, game, and how __init__ ended

tvars == <<offer, ready, tasks, events, calls, callers, emitted>>
ivars == <<payload, payload0, inventory>>
vars ==
    << offer, ready, tasks, events, calls, callers, emitted, payload, payload0,
       inventory >>

\* ------------------------------------------------------------------ bounds
MaxCalls == 2
MaxAssets == 2
MaxDescs == 2

\* ----------------------------------------------------------------- helpers
None == <<>>
Some(v) == <<v>>
Has(d, k) == k \in DOMAIN d

RECURSIVE IntFrom(_, _)
IntFrom(digits, acc) ==
    IF digits = <<>> THEN acc
    ELSE IntFrom(Tail(digits), acc * 10 + Head(digits))

\* int(s) for a string of decimal digits, the string given as its digits
int(digits) == IntFrom(digits, 0)

\* datetime.utcfromtimestamp(t): days since the epoch and second of the day
utcfromtimestamp(t) == [day |-> t \div 86400, second |-> t % 86400]

\* enums.ETradeOfferState, by value
StateNames ==
    << "Invalid", "Active", "Accepted", "Countered", "Expired", "Canceled",
       "Declined", "InvalidItems", "ConfirmationNeed",
       "CanceledBySecondFactor", "InEscrow" >>

ETradeOfferState(n) == StateNames[n]

\* game.Game(app_id=...): a value object
Game(app_id) == [app_id |-> app_id]

\* ------------------------------------------------------------ Asset, Item
Asset(data) ==
    [ id          |-> data.assetid,
      game        |-> Game(data.appid),
      app_id      |-> data.appid,
      amount      |-> int(data.amount),
      instance_id |-> data.instanceid,
      class_id    |-> data.classid ]

Asset__repr__NoId(a) ==
    << a.app_id, a.class_id, a.amount, a.instance_id, a.game >>

\* repr(asset): one entry per slot, in __slots__ order
Asset__repr__(a) ==
    << a.id, a.app_id, a.class_id, a.amount, a.instance_id, a.game >>

\* Item._update: the identity is read from a fresh Asset of the same data
Item_update(it, data) ==
    LET asset == Asset(data) IN
    [ asset       |-> asset,
      game        |-> asset.game,
      asset_id    |-> asset.id,
      app_id      |-> asset.app_id,
      amount      |-> asset.amount,
      instance_id |-> asset.instance_id,
      class_id    |-> asset.class_id,
      name        |-> IF Has(data, "name") THEN Some(data.name) ELSE None,
      market_name |-> IF Has(data, "market_name") THEN Some(data.market_name)
                      ELSE None,
      _data       |-> data ] @@ it

\* Item(data, missing): ref is the position in the payload's descriptions of
\* the dict the Item keeps in _data (0: the Item keeps the asset's own dict)
Item(data, missing, ref) ==
    Item_update([id |-> Asset(data).id, missing |-> missing, ref |-> ref], data)

\* ------------------------------------------------- what the collaborators give
\* asset stubs of a trade payload; StubA1 and StubA2 are two assets of one
\* class and instance
StubA1 ==
    [ assetid |-> "a1", appid |-> <<4, 4, 0>>, classid |-> "c1",
      instanceid |-> "i0", amount |-> <<1>> ]

StubA2 == [StubA1 EXCEPT !.assetid = "a2"]

StubB == [StubA1 EXCEPT !.assetid = "b1", !.classid = "c2"]

TradeBase(message, expiration_time, escrow_end_date) ==
    [ message |-> message, tradeofferid |-> <<7>>, accountid_other |-> 5,
      expiration_time |-> expiration_time,
      escrow_end_date |-> escrow_end_date ]

\* the item lists and scalar fields a trade payload comes with; a payload may
\* lack either list
TradeShapes ==
    { TradeBase("", 100, 0) @@ [items_to_give |-> <<StubA1, StubA2>>],
      TradeBase("hi", 200, 50) @@ [items_to_receive |-> <<StubA1, StubA2>>],
      TradeBase("hi", 100, 0)
          @@ [items_to_give |-> <<StubA1, StubA1>>,
              items_to_receive |-> <<StubB>>],
      TradeBase("", 200, 50) }

FirstShape == TradeBase("", 100, 0) @@ [items_to_give |-> <<StubA1, StubA2>>]

\* n = 0: the payload has no trade_offer_state
TradePayload(shape, is_our_offer, n) ==
    IF n = 0 THEN shape @@ [is_our_offer |-> is_our_offer]
    ELSE shape @@ [is_our_offer |-> is_our_offer, trade_offer_state |-> n]

\* what http.fetch_trade returns: every shape on an Active offer, and an
\* offer with no state, an Accepted one and one that needs confirmation
FetchedPayloads ==
    { TradePayload(sh, b, 2) : sh \in TradeShapes, b \in BOOLEAN }
    \cup { TradePayload(FirstShape, b, n) : b \in BOOLEAN, n \in {0, 3, 9} }

\* what an offer is constructed from: these, and every trade state with
\* either maker
TradePayloads ==
    FetchedPayloads
    \cup { TradePayload(FirstShape, b, n) :
              b \in BOOLEAN, n \in 0..Len(StateNames) }

\* client.fetch_user(accountid)
fetch_user(accountid) == [id64 |-> 1000 + accountid]

\* client.user
ClientUser == [id64 |-> 1001]

\* http.fetch_trade_items(user_id64, assets): the Items of that user for the
\* stubs, with or without a name
FetchVariants == {"named", "unnamed"}

fetch_trade_items(assets, variant) ==
    LET named == [i \in DOMAIN assets |->
                     Item(assets[i] @@ [name |-> "Key"], FALSE, 0)]
        plain == [i \in DOMAIN assets |-> Item(assets[i], FALSE, 0)]
    IN  IF variant = "named" THEN named ELSE plain

\* ----------------------------------------------------------- TradeOffer
TradeOffer_update(o, data) ==
    [ o EXCEPT
        !.message = IF data.message = "" THEN None ELSE Some(data.message),
        !.is_our_offer = data.is_our_offer,
        !.id = int(data.tradeofferid),
        !.expires = utcfromtimestamp(data.expiration_time),
        !.escrow = IF data.escrow_end_date # 0
                   THEN Some(utcfromtimestamp(data.escrow_end_date))
                   ELSE None,
        !.state = ETradeOfferState(IF Has(data, "trade_offer_state")
                                   THEN data.trade_offer_state ELSE 1),
        !._data = data ]

\* the slots before __init__ assigns them; the item slots stay unassigned
\* until _async__init__ (ready = FALSE)
BlankOffer ==
    [ partner |-> None, message |-> None, state |-> "Invalid",
      is_our_offer |-> FALSE, id |-> 0, expires |-> utcfromtimestamp(0),
      escrow |-> None, items_to_give |-> <<>>, items_to_receive |-> <<>>,
      _data |-> TradeBase("", 0, 0) ]

TradeOffer__init__(data, partner) ==
    TradeOffer_update([BlankOffer EXCEPT !.partner = partner], data)

\* fetch_items, line 109: a fetched item is the item of an asset stub
Matches(item, asset) ==
    /\ item.asset_id = asset.assetid
    /\ item.class_id = asset.classid
    /\ item.instance_id = asset.instanceid

\* fetch_items, lines 111-116: a nameless item is ignored when an item
\* already in to_ret has an asset of the same repr
Ignore(item, to_ret) ==
    /\ item.name = None
    /\ \E k \in DOMAIN to_ret :
          Asset__repr__(item.asset) = Asset__repr__(to_ret[k].asset)

RECURSIVE ScanItems(_, _, _, _)
ScanItems(asset, items, j, to_ret) ==
    IF j > Len(items) THEN to_ret
    ELSE ScanItems(asset, items, j + 1,
                   IF Matches(items[j], asset) /\ ~Ignore(items[j], to_ret)
                   THEN Append(to_ret, items[j]) ELSE to_ret)

RECURSIVE ScanAssets(_, _, _, _)
ScanAssets(assets, items, i, to_ret) ==
    IF i > Len(assets) THEN to_ret
    ELSE ScanAssets(assets, items, i + 1,
                    ScanItems(assets[i], items, 1, to_ret))

\* fetch_items after its await: to_ret for the stubs and the fetched items
fetch_items(assets, items) == ScanAssets(assets, items, 1, <<>>)

\* ------------------------------------------------------------- coroutines
TaskIds == {"t1", "t2"}

\* the caller that constructs the offer and runs its first _async__init__
Creator == "t1"

IdleTask ==
    [ op |-> "none", call |-> 0, pc |-> "idle", data |-> None,
      user_id64 |-> 0, assets |-> <<>>, log |-> <<>>, err |-> None,
      before |-> None ]

\* the coroutine of the n-th call on the offer
NewTask(op, n) == [IdleTask EXCEPT !.op = op, !.call = n]

Free(t) == tasks[t].pc \in {"idle", "returned", "raised"}

\* a caller may call when its own coroutine is over; the callers being
\* interchangeable, the second one calls only while the first is suspended
MayCall(t) == t \in callers /\ Free(t) /\ (t = Creator \/ ~Free(Creator))

ClientException(msg) == Some([cls |-> "ClientException", msg |-> msg])

\* whatever the transport raises; the coroutines catch nothing
TransportError == Some([cls |-> "TransportError", msg |-> ""])

\* the coroutine ends: its locals are gone, what it did stays on record
Leave(task, pc) ==
    [ task EXCEPT !.pc = pc, !.data = None, !.user_id64 = 0, !.assets = <<>>,
                  !.before = None ]

Raise(task, err) == [Leave(task, "raised") EXCEPT !.err = err]

Await(task, pc, what) ==
    [task EXCEPT !.pc = pc, !.log = Append(@, what)]

\* the end of update (lines 76-77) or of the first _async__init__
FinishInit(o, task) ==
    IF task.op = "update"
    THEN << TradeOffer_update(o, task.data[1]),
            [Leave(task, "returned") EXCEPT !.log = Append(@, "_update")] >>
    ELSE << o, Leave(task, "returned") >>

\* _async__init__, lines 68-71
StartReceive(o, task) ==
    IF Has(o._data, "items_to_give")
    THEN << o, [Await(task, "fetch_receive", "fetch_trade_items")
                   EXCEPT !.user_id64 = o.partner[1].id64,
                          !.assets = o._data.items_to_give] >>
    ELSE FinishInit([o EXCEPT !.items_to_receive = <<>>], task)

\* _async__init__, lines 63-66
StartGive(o, task) ==
    IF Has(o._data, "items_to_receive")
    THEN << o, [Await(task, "fetch_give", "fetch_trade_items")
                   EXCEPT !.user_id64 = ClientUser.id64,
                          !.assets = o._data.items_to_receive] >>
    ELSE StartReceive([o EXCEPT !.items_to_give = <<>>], task)

\* _async__init__, lines 60-61
StartInit(o, task) ==
    IF o.partner = None
    THEN << o, Await(task, "fetch_user", "fetch_user") >>
    ELSE StartGive(o, task)

\* a segment of _async__init__ or update: the offer and the coroutine after it
Step(t, pair) ==
    /\ offer' = pair[1]
    /\ tasks' = [tasks EXCEPT ![t] = pair[2]]
    /\ emitted' = IF pair[2].op = "update" /\ pair[2].pc = "returned"
                  THEN 0 ELSE emitted

\* the first _async__init__ of a constructed offer
AsyncInit(t) ==
    /\ t = Creator
    /\ ~ready
    /\ tasks[t].op = "none"
    /\ Step(t, StartInit(offer, NewTask("init", 0)))
    /\ ready' = (tasks'[t].pc = "returned")
    /\ UNCHANGED <<events, calls, callers, ivars>>

\* update, line 74, up to its await
UpdateCall(t) ==
    /\ ready /\ MayCall(t) /\ calls < MaxCalls
    /\ tasks' = [tasks EXCEPT ![t] =
                    [ Await(NewTask("update", calls + 1),
                            "fetch_trade", "fetch_trade")
                        EXCEPT !.before = Some(offer) ]]
    /\ calls' = calls + 1
    /\ UNCHANGED <<offer, ready, events, callers, emitted, ivars>>

\* http.fetch_trade returns data: lines 74-75 up to the next await
FetchTradeReturn(t, data) ==
    /\ tasks[t].pc = "fetch_trade"
    /\ Step(t, StartInit(offer, [tasks[t] EXCEPT !.data = Some(data)]))
    /\ UNCHANGED <<ready, events, calls, callers, ivars>>

\* client.fetch_user returns: lines 61-62 and on
FetchUserReturn(t) ==
    /\ tasks[t].pc = "fetch_user"
    /\ Step(t, StartGive(
                 [offer EXCEPT
                     !.partner = Some(fetch_user(offer._data.accountid_other))],
                 tasks[t]))
    /\ ready' = (ready \/ tasks'[t].pc = "returned")
    /\ UNCHANGED <<events, calls, callers, ivars>>

\* http.fetch_trade_items returns for items_to_give: lines 105-120, 63, 68
FetchGiveReturn(t, variant) ==
    /\ tasks[t].pc = "fetch_give"
    /\ LET items == fetch_trade_items(tasks[t].assets, variant)
           to_ret == fetch_items(tasks[t].assets, items)
       IN  Step(t, StartReceive([offer EXCEPT !.items_to_give = to_ret],
                                tasks[t]))
    /\ ready' = (ready \/ tasks'[t].pc = "returned")
    /\ UNCHANGED <<events, calls, callers, ivars>>

\* http.fetch_trade_items returns for items_to_receive: lines 105-120, 68
FetchReceiveReturn(t, variant) ==
    /\ tasks[t].pc = "fetch_receive"
    /\ LET items == fetch_trade_items(tasks[t].assets, variant)
           to_ret == fetch_items(tasks[t].assets, items)
       IN  Step(t, FinishInit([offer EXCEPT !.items_to_receive = to_ret],
                              tasks[t]))
    /\ ready' = (ready \/ tasks'[t].pc = "returned")
    /\ UNCHANGED <<events, calls, callers, ivars>>

accept_check_Confirmation(o) ==
    IF o.state # "Active" /\ o.state # "ConfirmationNeed"
    THEN ClientException("This trade is not active")
    ELSE None

\* accept, lines 80-81: the exception the call raises before any request
accept_check(o) ==
    IF o.state # "Active"
    THEN ClientException("This trade is not active")
    ELSE None

decline_check_AnyMaker(o) ==
    IF o.state # "Active" /\ o.state # "ConfirmationNeed"
    THEN ClientException("This trade is not active")
    ELSE None

decline_check_OneMessage(o) ==
    IF (o.state # "Active" /\ o.state # "ConfirmationNeed") \/ o.is_our_offer
    THEN ClientException("This trade is not active")
    ELSE None

\* decline, lines 87-90
decline_check(o) ==
    IF o.state # "Active" /\ o.state # "ConfirmationNeed"
    THEN ClientException("This trade is not active")
    ELSE IF o.is_our_offer
    THEN ClientException(
             "You cannot decline an offer the ClientUser has made")
    ELSE None

cancel_check_AnyState(o) ==
    IF ~o.is_our_offer
    THEN ClientException(
             "Offer wasn't created by the ClientUser and therefore cannot be canceled")
    ELSE None

cancel_check_Theirs(o) ==
    IF o.state # "Active" /\ o.state # "ConfirmationNeed"
    THEN ClientException("This trade is not active")
    ELSE IF o.is_our_offer
    THEN ClientException(
             "Offer wasn't created by the ClientUser and therefore cannot be canceled")
    ELSE None

\* cancel, lines 96-99
cancel_check(o) ==
    IF o.state # "Active" /\ o.state # "ConfirmationNeed"
    THEN ClientException("This trade is not active")
    ELSE IF ~o.is_our_offer
    THEN ClientException(
             "Offer wasn't created by the ClientUser and therefore cannot be canceled")
    ELSE None

\* the state that accept, decline and cancel assign
Assigned(op) ==
    CASE op = "accept" -> "Accepted"
      [] op = "decline" -> "Declined"
      [] op = "cancel" -> "Canceled"

\* the assignment to state moved before the checks
ActionCall_AssignFirst(t, op, err, request) ==
    /\ ready /\ MayCall(t) /\ calls < MaxCalls
    /\ tasks' = [tasks EXCEPT ![t] =
                    IF err # None
                    THEN Raise(NewTask(op, calls + 1), err)
                    ELSE Await(NewTask(op, calls + 1), "request", request)]
    /\ calls' = calls + 1
    /\ offer' = [offer EXCEPT !.state = Assigned(op)]
    /\ UNCHANGED <<ready, events, callers, emitted, ivars>>

\* the assignment to state moved before the await of the request
ActionCall_Optimistic(t, op, err, request) ==
    /\ ready /\ MayCall(t) /\ calls < MaxCalls
    /\ tasks' = [tasks EXCEPT ![t] =
                    IF err # None
                    THEN Raise(NewTask(op, calls + 1), err)
                    ELSE Await(NewTask(op, calls + 1), "request", request)]
    /\ calls' = calls + 1
    /\ offer' = IF err # None THEN offer
                ELSE [offer EXCEPT !.state = Assigned(op)]
    /\ UNCHANGED <<ready, events, callers, emitted, ivars>>

\* a call of accept, decline or cancel up to its raise or its await
ActionCall(t, op, err, request) ==
    /\ ready /\ MayCall(t) /\ calls < MaxCalls
    /\ tasks' = [tasks EXCEPT ![t] =
                    IF err # None
                    THEN Raise(NewTask(op, calls + 1), err)
                    ELSE Await(NewTask(op, calls + 1), "request", request)]
    /\ calls' = calls + 1
    /\ UNCHANGED <<offer, ready, events, callers, emitted, ivars>>

\* the dispatch moved before the assignment to state
ActionReturn_DispatchFirst(t, op, state, event) ==
    /\ tasks[t].pc = "request"
    /\ tasks[t].op = op
    /\ events' = Append(events, [name |-> event, state |-> offer.state])
    /\ offer' = [offer EXCEPT !.state = state]
    /\ tasks' = [tasks EXCEPT ![t] =
                    [@ EXCEPT !.pc = "returned",
                              !.log = @ \o <<"dispatch", "state">>]]
    /\ emitted' = emitted + 1
    /\ UNCHANGED <<ready, calls, callers, ivars>>

\* the request returned: the assignment to state, then the dispatch of the
\* event with the offer as it then is
ActionReturn(t, op, state, event) ==
    /\ tasks[t].pc = "request"
    /\ tasks[t].op = op
    /\ offer' = [offer EXCEPT !.state = state]
    /\ events' = Append(events, [name |-> event, state |-> offer'.state])
    /\ tasks' = [tasks EXCEPT ![t] =
                    [Leave(@, "returned") EXCEPT
                        !.log = @ \o <<"state", "dispatch">>]]
    /\ emitted' = emitted + 1
    /\ UNCHANGED <<ready, calls, callers, ivars>>

\* accept, lines 80-82
AcceptCall(t) == ActionCall(t, "accept", accept_check(offer), "accept_trade")

\* accept, lines 83-84
AcceptReturn(t) == ActionReturn(t, "accept", "Accepted", "trade_accept")

\* decline, lines 87-91
DeclineCall(t) ==
    ActionCall(t, "decline", decline_check(offer), "decline_user_trade")

\* decline, lines 92-93
DeclineReturn(t) == ActionReturn(t, "decline", "Declined", "trade_decline")

\* cancel, lines 96-100
CancelCall(t) ==
    ActionCall(t, "cancel", cancel_check(offer), "cancel_user_trade")

\* cancel, lines 101-102
CancelReturn(t) == ActionReturn(t, "cancel", "Canceled", "trade_cancel")

Awaiting(t) == ~Free(t)

\* the awaited call of the transport raises: the exception leaves the
\* coroutine at the await
TransportFail(t) ==
    /\ Awaiting(t)
    /\ tasks' = [tasks EXCEPT ![t] = Raise(@, TransportError)]
    /\ UNCHANGED <<offer, ready, events, calls, callers, emitted, ivars>>

\* ------------------------------------------------------------- Inventory
\* an asset of a class and instance that StubA1, StubA2 and StubB are not of
StubC == [StubA1 EXCEPT !.assetid = "c1", !.instanceid = "i1"]

AssetPool == {StubA1, StubA2, StubB, StubC}

\* description records; DescOldKey has the class and instance of DescKey
DescKey == [classid |-> "c1", instanceid |-> "i0", name |-> "Key"]

DescHat == [classid |-> "c2", instanceid |-> "i0", name |-> "Hat"]

DescOldKey == [DescKey EXCEPT !.name = "Old Key"]

DescPool == {DescKey, DescHat, DescOldKey}

\* the sequences without repetition of at most n elements of S
RECURSIVE Arrangements(_, _)
Arrangements(S, n) ==
    IF n = 0 THEN {<<>>}
    ELSE LET shorter == Arrangements(S, n - 1) IN
         shorter \cup
         { Append(q, x) : <<q, x>> \in
             { pr \in shorter \X S :
                 \A k \in DOMAIN pr[1] : pr[1][k] # pr[2] } }

InventoryPayloads ==
    { [assets |-> a, descriptions |-> d, total_inventory_count |-> Len(a)] :
        a \in Arrangements(AssetPool, MaxAssets),
        d \in Arrangements(DescPool, MaxDescs) }

\* a description is the description of an asset (line 162)
Describes(item, asset) ==
    item.instanceid = asset.instanceid /\ item.classid = asset.classid

\* lines 161-165: every description of the asset is updated with the asset
\* and gives an Item; acc is [descriptions, items]
RECURSIVE ScanDescriptions(_, _, _)
ScanDescriptions(asset, j, acc) ==
    IF j > Len(acc.descriptions) THEN acc
    ELSE IF Describes(acc.descriptions[j], asset)
    THEN LET item == asset @@ acc.descriptions[j] IN
         ScanDescriptions(asset, j + 1,
             [ descriptions |-> [acc.descriptions EXCEPT ![j] = item],
               items |-> Append(acc.items, Item(item, FALSE, j)) ])
    ELSE ScanDescriptions(asset, j + 1, acc)

\* line 166, after the loop over the descriptions
AppendMissing(asset, acc) ==
    [acc EXCEPT !.items = Append(@, Item(asset, TRUE, 0))]

\* lines 160-167
RECURSIVE ScanInventory(_, _, _)
ScanInventory(assets, i, acc) ==
    IF i > Len(assets) THEN acc
    ELSE ScanInventory(assets, i + 1,
             AppendMissing(assets[i], ScanDescriptions(assets[i], 1, acc)))

\* Items that read their fields from the kept dict when asked
Aliased_Lazy(items, descriptions) ==
    [ k \in DOMAIN items |->
        IF items[k].ref = 0 THEN items[k]
        ELSE Item(descriptions[items[k].ref], FALSE, items[k].ref) ]

\* an Item made of a description keeps that dict, which later assets update
Aliased(items, descriptions) ==
    [ k \in DOMAIN items |->
        IF items[k].ref = 0 THEN items[k]
        ELSE [items[k] EXCEPT !._data = descriptions[items[k].ref]] ]

\* Inventory._update past line 159: the descriptions and self.items after it
Inventory_update(data) ==
    LET acc == ScanInventory(data.assets, 1,
                   [descriptions |-> data.descriptions, items |-> <<>>])
    IN  [ descriptions |-> acc.descriptions,
          items |-> Aliased(acc.items, acc.descriptions) ]

\* the call last made on the Inventory: what it returned or raised
NoCall == [op |-> "none", item_name |-> "", ret |-> <<>>, err |-> None]

\* removed: the Items that filter_items and get_item have taken out so far
NoInventory ==
    [ items |-> <<>>, game |-> Game(0), pc |-> "none", last |-> NoCall,
      removed |-> {} ]

NoPayload ==
    [assets |-> <<>>, descriptions |-> <<>>, total_inventory_count |-> 0]

InventoryIdle ==
    /\ payload = NoPayload
    /\ payload0 = NoPayload
    /\ inventory = NoInventory

\* Inventory(state, data, owner), lines 142-145 and 157-167; line 159 raises
\* IndexError when there is no asset
Inventory__init__ ==
    /\ inventory.pc = "new"
    /\ IF payload.assets = <<>>
       THEN /\ inventory' = [inventory EXCEPT !.pc = "raised"]
            /\ UNCHANGED payload
       ELSE LET done == Inventory_update(payload) IN
            /\ inventory' =
                 [ inventory EXCEPT
                     !.items = done.items,
                     !.game = Game(int(payload.assets[1].appid)),
                     !.pc = "built" ]
            /\ payload' = [payload EXCEPT !.descriptions = done.descriptions]
    /\ UNCHANGED <<payload0, tvars>>

\* the truth value of a list: it is not empty
Truthy(list) == Len(list) > 0

is_one_sided_Or(o) ==
    IF Truthy(o.items_to_receive) \/ ~Truthy(o.items_to_give)
    THEN TRUE ELSE FALSE

\* TradeOffer.is_one_sided, line 123
is_one_sided(o) ==
    IF Truthy(o.items_to_receive) /\ ~Truthy(o.items_to_give)
    THEN TRUE ELSE FALSE

\* Inventory.__len__, line 155: _data is the payload
Inventory__len__ == payload.total_inventory_count

\* the names filter_items and get_item are called with
ItemNames == {"Key", "Hat", "Nope"}

\* [item for item in self.items if item.name == item_name]
Named(items, item_name) ==
    SelectSeq(items, LAMBDA item : item.name = Some(item_name))

\* list.remove(x): the list without its first element equal to x; an Item
\* has no __eq__, so that element is x itself
RECURSIVE remove(_, _)
remove(list, x) ==
    IF list = <<>> THEN <<>>
    ELSE IF Head(list) = x THEN Tail(list)
    ELSE <<Head(list)>> \o remove(Tail(list), x)

\* lines 184-185
RECURSIVE RemoveEach(_, _)
RemoveEach(list, items) ==
    IF items = <<>> THEN list
    ELSE RemoveEach(remove(list, Head(items)), Tail(items))

filter_items_First(items, item_name) ==
    LET found == Named(items, item_name) IN
    [ ret |-> found,
      items |-> IF found = <<>> THEN items ELSE remove(items, found[1]),
      err |-> None ]

\* Inventory.filter_items, lines 183-186: what it returns and self.items after
filter_items(items, item_name) ==
    LET found == Named(items, item_name) IN
    [ ret |-> found, items |-> RemoveEach(items, found), err |-> None ]

IndexError == Some([cls |-> "IndexError", msg |-> "list index out of range"])

get_item_NoRemove(items, item_name) ==
    LET found == Named(items, item_name) IN
    IF found = <<>>
    THEN [ret |-> <<>>, items |-> items, err |-> IndexError]
    ELSE [ret |-> <<found[1]>>, items |-> items, err |-> None]

\* Inventory.get_item, lines 202-204: [0] of an empty list raises IndexError
get_item(items, item_name) ==
    LET found == Named(items, item_name) IN
    IF found = <<>>
    THEN [ret |-> <<>>, items |-> items, err |-> IndexError]
    ELSE [ret |-> <<found[1]>>, items |-> remove(items, found[1]),
          err |-> None]

\* a call of filter_items or get_item on the built Inventory
InventoryCall(op, item_name, out) ==
    /\ inventory.pc = "built"
    /\ inventory' =
         [ inventory EXCEPT
             !.items = out.items,
             !.removed = @ \cup { out.ret[k] : k \in DOMAIN out.ret },
             !.last = [ op |-> op, item_name |-> item_name, ret |-> out.ret,
                        err |-> out.err ] ]
    /\ UNCHANGED <<payload, payload0, tvars>>

FilterItems(item_name) ==
    InventoryCall("filter_items", item_name,
                  filter_items(inventory.items, item_name))

GetItem(item_name) ==
    InventoryCall("get_item", item_name, get_item(inventory.items, item_name))

\* ---------------------------------------------------------- specification
TradeInit(who) ==
    /\ callers = who
    /\ \E data \in TradePayloads :
         \E partner \in {None, Some(fetch_user(data.accountid_other))} :
            offer = TradeOffer__init__(data, partner)
    /\ ready = FALSE
    /\ tasks = [t \in TaskIds |-> IdleTask]
    /\ events = <<>>
    /\ calls = 0
    /\ emitted = 0

\* one caller: the calls on the offer follow one another
Init == TradeInit({Creator}) /\ InventoryIdle

\* two callers: a call may start while another is suspended
InitOverlap == TradeInit(TaskIds) /\ InventoryIdle

Next ==
    \E t \in TaskIds :
        \/ AsyncInit(t)
        \/ UpdateCall(t)
        \/ \E data \in FetchedPayloads : FetchTradeReturn(t, data)
        \/ FetchUserReturn(t)
        \/ \E variant \in FetchVariants : FetchGiveReturn(t, variant)
        \/ \E variant \in FetchVariants : FetchReceiveReturn(t, variant)
        \/ AcceptCall(t)
        \/ AcceptReturn(t)
        \/ DeclineCall(t)
        \/ DeclineReturn(t)
        \/ CancelCall(t)
        \/ CancelReturn(t)
        \/ TransportFail(t)

Spec == Init /\ [][Next]_vars

SpecOverlap == InitOverlap /\ [][Next]_vars

\* no offer: the slots of the offer variables stay as they are
TradeIdle ==
    /\ offer = BlankOffer
    /\ ready = FALSE
    /\ tasks = [t \in TaskIds |-> IdleTask]
    /\ events = <<>>
    /\ calls = 0
    /\ emitted = 0
    /\ callers = {}

InitInventory ==
    /\ payload \in InventoryPayloads
    /\ payload0 = payload
    /\ inventory = [NoInventory EXCEPT !.pc = "new"]
    /\ TradeIdle

NextInventory ==
    \/ Inventory__init__
    \/ \E item_name \in ItemNames : FilterItems(item_name)
    \/ \E item_name \in ItemNames : GetItem(item_name)

SpecInventory == InitInventory /\ [][NextInventory]_vars

\* ------------------------------------------------------------------ claims
\* the descriptions of a payload that have the class and instance of an asset
Matching(data, asset) ==
    { j \in DOMAIN data.descriptions : Describes(data.descriptions[j], asset) }

\* a well-formed inventory payload: it has assets, and no two descriptions
\* have the same class and instance
WellFormed(data) ==
    /\ data.assets # <<>>
    /\ \A j, k \in DOMAIN data.descriptions :
          Describes(data.descriptions[j], data.descriptions[k]) => j = k

\* C1: an Inventory built from a well-formed payload has exactly one Item per
\* asset, in the order of the assets, and an Item is missing if and only if
\* no description has the class and instance of its asset.
C1_OneItemPerAsset ==
    (inventory.pc = "built" /\ WellFormed(payload0)) =>
        /\ Len(inventory.items) = Len(payload0.assets)
        /\ \A i \in DOMAIN payload0.assets :
              /\ inventory.items[i].id = payload0.assets[i].assetid
              /\ inventory.items[i].missing
                    <=> (Matching(payload0, payload0.assets[i]) = {})

ActionOps == {"accept", "decline", "cancel"}

\* what each of accept, decline and cancel requires of the offer
Permitted(op, o) ==
    CASE op = "accept" -> o.state = "Active"
      [] op = "decline" ->
            o.state \in {"Active", "ConfirmationNeed"} /\ ~o.is_our_offer
      [] op = "cancel" ->
            o.state \in {"Active", "ConfirmationNeed"} /\ o.is_our_offer

\* the request each of them makes, and the event each of them dispatches
RequestOf(op) ==
    CASE op = "accept" -> "accept_trade"
      [] op = "decline" -> "decline_user_trade"
      [] op = "cancel" -> "cancel_user_trade"

\* the step in which caller t calls op
CallStep(t, op) ==
    calls' = calls + 1 /\ tasks'[t].call = calls' /\ tasks'[t].op = op

\* the step in which the request of t's op returns
ReturnStep(t, op) ==
    tasks[t].op = op /\ tasks[t].pc = "request" /\ tasks'[t].pc = "returned"

\* the step in which the request of t's op raises
FailStep(t, op) ==
    tasks[t].op = op /\ tasks[t].pc = "request" /\ tasks'[t].pc = "raised"

LastEvent == events[Len(events)]

\* C2: a call of accept, decline or cancel whose precondition fails ends in
\* that step with an exception and leaves the offer, its state included, as
\* it was, whatever the state and whoever made the offer.
C2_FailedPreconditionKeepsState ==
    [][\A t \in TaskIds, op \in ActionOps :
          (CallStep(t, op) /\ ~Permitted(op, offer)) =>
              /\ tasks'[t].pc = "raised"
              /\ offer' = offer]_vars

\* an accept was refused on an offer that needs confirmation
C2_Witness ==
    \E t \in TaskIds :
        /\ tasks[t].op = "accept" /\ tasks[t].pc = "raised"
        /\ tasks[t].err = ClientException("This trade is not active")
        /\ offer.state = "ConfirmationNeed"

\* C3: neither the call that makes the request nor the failure of the request
\* changes the state field or dispatches an event; the failure ends the call
\* with the transport's error after the one request made.
C3_TransportFailureKeepsState ==
    [][\A t \in TaskIds, op \in ActionOps :
          /\ CallStep(t, op) => offer'.state = offer.state /\ events' = events
          /\ FailStep(t, op) =>
                /\ offer'.state = offer.state
                /\ events' = events
                /\ tasks'[t].err = TransportError
                /\ tasks'[t].log = <<RequestOf(op)>>]_vars

\* the request of a decline failed and the offer is still Active
C3_Witness ==
    \E t \in TaskIds :
        /\ tasks[t].op = "decline" /\ tasks[t].pc = "raised"
        /\ tasks[t].err = TransportError
        /\ offer.state = "Active"
        /\ events = <<>>

\* C4: a call that succeeds makes one request and, after the request has
\* returned, assigns the state field once and then dispatches one event, which
\* sees the state assigned; nothing is assigned or dispatched before.
C4_RequestThenStateThenEvent ==
    [][\A t \in TaskIds, op \in ActionOps :
          /\ (CallStep(t, op) /\ tasks'[t].pc = "request") =>
                /\ tasks'[t].log = <<RequestOf(op)>>
                /\ offer' = offer
                /\ events' = events
          /\ ReturnStep(t, op) =>
                /\ tasks'[t].log = <<RequestOf(op), "state", "dispatch">>
                /\ offer' = [offer EXCEPT !.state = offer'.state]
                /\ Len(events') = Len(events) + 1
                /\ SubSeq(events', 1, Len(events)) = events
                /\ events'[Len(events')].state = offer'.state]_vars

\* a cancel went through its three effects
C4_Witness ==
    \E t \in TaskIds :
        /\ tasks[t].op = "cancel" /\ tasks[t].pc = "returned"
        /\ tasks[t].log = <<"cancel_user_trade", "state", "dispatch">>
        /\ Len(events) = 1

\* C5: accept makes its request if and only if the state is Active, and is
\* otherwise refused with no request made; when the request returns, the
\* state becomes Accepted and trade_accept is dispatched with the offer.
C5_AcceptOnlyWhenActive ==
    [][\A t \in TaskIds :
          /\ CallStep(t, "accept") =>
                IF offer.state = "Active"
                THEN tasks'[t].pc = "request"
                ELSE tasks'[t].pc = "raised" /\ tasks'[t].log = <<>>
          /\ ReturnStep(t, "accept") =>
                /\ offer'.state = "Accepted"
                /\ events' = Append(events, [name |-> "trade_accept",
                                             state |-> "Accepted"])]_vars

\* an accept succeeded
C5_Witness ==
    \E t \in TaskIds :
        /\ tasks[t].op = "accept" /\ tasks[t].pc = "returned"
        /\ offer.state = "Accepted"
        /\ events # <<>> /\ LastEvent.name = "trade_accept"

\* C6: decline makes its request if and only if the state is Active or
\* ConfirmationNeed and the offer is not ours, and is otherwise refused with
\* no request made; when the request returns, the state becomes Declined and
\* trade_decline is dispatched.
C6_DeclineOnlyTheirsWhenOpen ==
    [][\A t \in TaskIds :
          /\ CallStep(t, "decline") =>
                IF offer.state \in {"Active", "ConfirmationNeed"}
                   /\ ~offer.is_our_offer
                THEN tasks'[t].pc = "request"
                ELSE tasks'[t].pc = "raised" /\ tasks'[t].log = <<>>
          /\ ReturnStep(t, "decline") =>
                /\ offer'.state = "Declined"
                /\ events' = Append(events, [name |-> "trade_decline",
                                             state |-> "Declined"])]_vars

\* a decline of their offer that needed confirmation succeeded
C6_Witness ==
    \E t \in TaskIds :
        /\ tasks[t].op = "decline" /\ tasks[t].pc = "returned"
        /\ offer.state = "Declined" /\ ~offer.is_our_offer
        /\ Has(offer._data, "trade_offer_state")
        /\ offer._data.trade_offer_state = 9
        /\ events # <<>> /\ LastEvent.name = "trade_decline"

\* C7: cancel makes its request if and only if the state is Active or
\* ConfirmationNeed and the offer is ours, and is otherwise refused with no
\* request made; when the request returns, the state becomes Canceled and
\* trade_cancel is dispatched.
C7_CancelOnlyOursWhenOpen ==
    [][\A t \in TaskIds :
          /\ CallStep(t, "cancel") =>
                IF offer.state \in {"Active", "ConfirmationNeed"}
                   /\ offer.is_our_offer
                THEN tasks'[t].pc = "request"
                ELSE tasks'[t].pc = "raised" /\ tasks'[t].log = <<>>
          /\ ReturnStep(t, "cancel") =>
                /\ offer'.state = "Canceled"
                /\ events' = Append(events, [name |-> "trade_cancel",
                                             state |-> "Canceled"])]_vars

\* a cancel of our offer that needed confirmation succeeded
C7_Witness ==
    \E t \in TaskIds :
        /\ tasks[t].op = "cancel" /\ tasks[t].pc = "returned"
        /\ offer.state = "Canceled" /\ offer.is_our_offer
        /\ Has(offer._data, "trade_offer_state")
        /\ offer._data.trade_offer_state = 9
        /\ events # <<>> /\ LastEvent.name = "trade_cancel"

\* the exception decline raises on an offer in a state it does not permit
DeclineNotActive == decline_check([offer EXCEPT !.state = "Expired"])

\* C8 (as stated): decline of our own Active offer raises an error of another
\* kind than decline in a state that is not permitted, and the state stays
\* Active.
C8_DistinctErrorKind ==
    [][\A t \in TaskIds :
          (CallStep(t, "decline") /\ offer.is_our_offer
               /\ offer.state = "Active") =>
              /\ tasks'[t].pc = "raised"
              /\ tasks'[t].err[1].cls # DeclineNotActive[1].cls
              /\ offer'.state = "Active"]_vars

\* C8 (amended): decline of our own Active offer raises ClientException, the
\* class also raised in a state that is not permitted, with a message of its
\* own, and the state stays Active.
C8_DeclineOwnOfferRaises ==
    [][\A t \in TaskIds :
          (CallStep(t, "decline") /\ offer.is_our_offer
               /\ offer.state = "Active") =>
              /\ tasks'[t].pc = "raised"
              /\ tasks'[t].err = ClientException(
                    "You cannot decline an offer the ClientUser has made")
              /\ tasks'[t].err[1].cls = DeclineNotActive[1].cls
              /\ tasks'[t].err[1].msg # DeclineNotActive[1].msg
              /\ offer'.state = "Active"]_vars

\* a decline of our own Active offer was refused
C8_Witness ==
    \E t \in TaskIds :
        /\ tasks[t].op = "decline" /\ tasks[t].pc = "raised"
        /\ tasks[t].err # None /\ tasks[t].err[1].cls = "ClientException"
        /\ offer.is_our_offer /\ offer.state = "Active"

\* what _async__init__ can make of the stubs a payload has under key
Resolved(data, key) ==
    IF Has(data, key)
    THEN { fetch_items(data[key], fetch_trade_items(data[key], variant)) :
             variant \in FetchVariants }
    ELSE {<<>>}

\* C9: once update has returned, the scalar fields and the two item lists of
\* the offer are those of the payload that update fetched (which is then the
\* offer's _data), not those of a payload stored before.
C9_UpdateRefreshesAll ==
    \A t \in TaskIds :
        (tasks[t].op = "update" /\ tasks[t].pc = "returned") =>
            /\ offer = TradeOffer_update(offer, offer._data)
            /\ offer.items_to_give \in Resolved(offer._data, "items_to_receive")
            /\ offer.items_to_receive \in Resolved(offer._data, "items_to_give")

\* two stubs of two assets of one class and instance
TwoAlike(assets) ==
    /\ Len(assets) = 2
    /\ assets[1].assetid # assets[2].assetid
    /\ assets[1].classid = assets[2].classid
    /\ assets[1].instanceid = assets[2].instanceid

Nameless(items) ==
    items # <<>> /\ \A k \in DOMAIN items : items[k].name = None

\* the step in which fetch_items, awaited by t at pc, returns its list
ResolveStep(t, pc) ==
    tasks[t].pc = pc /\ tasks'[t].pc \notin {pc, "raised"}

\* C10 (as stated): for two stubs of two assets of one class and instance
\* whose items have no name, fetch_items records one item.
C10_NamelessTwinsCollapse ==
    [][\A t \in TaskIds :
          /\ (ResolveStep(t, "fetch_give") /\ TwoAlike(tasks[t].assets)
                  /\ Nameless(offer'.items_to_give)) =>
                Len(offer'.items_to_give) = 1
          /\ (ResolveStep(t, "fetch_receive") /\ TwoAlike(tasks[t].assets)
                  /\ Nameless(offer'.items_to_receive)) =>
                Len(offer'.items_to_receive) = 1]_vars

\* the asset ids of a list of items
AssetIds(items) == [k \in DOMAIN items |-> items[k].asset_id]

\* C10 (amended): for two stubs of two assets of one class and instance whose
\* items have no name, fetch_items records both items, in the order of the
\* stubs: the repr it compares holds the asset id.
C10_NamelessTwinsKept ==
    [][\A t \in TaskIds :
          /\ (ResolveStep(t, "fetch_give") /\ TwoAlike(tasks[t].assets)
                  /\ Nameless(offer'.items_to_give)) =>
                AssetIds(offer'.items_to_give)
                    = <<tasks[t].assets[1].assetid, tasks[t].assets[2].assetid>>
          /\ (ResolveStep(t, "fetch_receive") /\ TwoAlike(tasks[t].assets)
                  /\ Nameless(offer'.items_to_receive)) =>
                AssetIds(offer'.items_to_receive)
                    = <<tasks[t].assets[1].assetid, tasks[t].assets[2].assetid>>]_vars

\* one side of the offer holds the nameless items of two assets of one class
\* and instance
C10_Witness ==
    /\ ready
    /\ Nameless(offer.items_to_receive)
    /\ Len(offer.items_to_receive) = 2
    /\ offer.items_to_receive[1].asset_id # offer.items_to_receive[2].asset_id
    /\ offer.items_to_receive[1].class_id = offer.items_to_receive[2].class_id
    /\ offer.items_to_receive[1].instance_id
          = offer.items_to_receive[2].instance_id

\* -------------------------------------------------- claims on the lookups

\* a call of filter_items or get_item that returned something or raised
LookupStep(op) ==
    /\ inventory.pc = "built"
    /\ inventory' # inventory
    /\ inventory'.last.op = op

\* what the call of this step returned: [item] for get_item
Returned == inventory'.last.ret

ReturnedSet == { Returned[k] : k \in DOMAIN Returned }

\* C11: get_item and filter_items reduce the size of the inventory, as
\* len(inventory) reports it, by exactly the number of items they return, and
\* never return an item that an earlier call removed.
C11_LenShrinksByReturned ==
    [][\A op \in {"filter_items", "get_item"} :
          LookupStep(op) =>
              /\ Inventory__len__' = Inventory__len__ - Len(Returned)
              /\ ReturnedSet \cap inventory.removed = {}]_vars

\* C11 (amended): get_item and filter_items shorten the item list of the
\* inventory by exactly the number of items they return, 1 for a successful
\* get_item, and never return an item that an earlier call removed;
\* len(inventory) is the total_inventory_count of the payload and stays as it
\* was.
C11_ItemsShrinkByReturned ==
    [][\A op \in {"filter_items", "get_item"} :
          LookupStep(op) =>
              /\ Len(inventory'.items) = Len(inventory.items) - Len(Returned)
              /\ (op = "get_item" /\ inventory'.last.err = None) =>
                    Len(Returned) = 1
              /\ ReturnedSet \cap inventory.removed = {}
              /\ Inventory__len__' = Inventory__len__]_vars

\* a get_item has returned an item after an earlier call removed another item
\* of the same name
C11_Witness ==
    /\ inventory.last.op = "get_item"
    /\ Len(inventory.last.ret) = 1
    /\ \E x \in inventory.removed :
          x # inventory.last.ret[1] /\ x.name = inventory.last.ret[1].name

\* C12: filter_items(name) returns exactly the items of that name, in their
\* order, and leaves exactly the other items in the inventory, in their order.
C12_FilterPartitions ==
    [][LookupStep("filter_items") =>
          LET item_name == inventory'.last.item_name IN
          /\ Returned = SelectSeq(inventory.items,
                                  LAMBDA x : x.name = Some(item_name))
          /\ inventory'.items = SelectSeq(inventory.items,
                                          LAMBDA x : x.name # Some(item_name))
          /\ \A k \in DOMAIN inventory'.items :
                inventory'.items[k].name # Some(item_name)]_vars

\* filter_items has returned two items and left others behind
C12_Witness ==
    /\ inventory.last.op = "filter_items"
    /\ Len(inventory.last.ret) = 2
    /\ inventory.items # <<>>

\* the first index of an item of that name, 0 when there is none
FirstNamed(items, item_name) ==
    LET hits == { k \in DOMAIN items : items[k].name = Some(item_name) } IN
    IF hits = {} THEN 0 ELSE CHOOSE k \in hits : \A j \in hits : k <= j

\* C13: get_item(name) returns and removes the first item of that name; when
\* there is none it fails with NotFoundError and leaves the item list as it
\* was.
C13_GetItemFirstOrNotFound ==
    [][LookupStep("get_item") =>
          LET k == FirstNamed(inventory.items, inventory'.last.item_name) IN
          IF k = 0
          THEN /\ inventory'.last.err # None
               /\ inventory'.last.err[1].cls = "NotFoundError"
               /\ inventory'.items = inventory.items
          ELSE /\ inventory'.last.err = None
               /\ Returned = <<inventory.items[k]>>
               /\ inventory'.items =
                     SubSeq(inventory.items, 1, k - 1)
                         \o SubSeq(inventory.items, k + 1,
                                    Len(inventory.items))]_vars

\* ------------------------------------------------ claims on is_one_sided

\* C14: is_one_sided() of an offer whose items are resolved is true exactly
\* when items_to_give is empty and items_to_receive is not.
C14_OneSidedIffGiveNothing ==
    ready =>
        (is_one_sided(offer) = TRUE
            <=> (offer.items_to_give = <<>> /\ offer.items_to_receive # <<>>))

\* an offer that gives nothing and receives something, and is one-sided
C14_Witness ==
    /\ ready
    /\ offer.items_to_give = <<>>
    /\ offer.items_to_receive # <<>>
    /\ is_one_sided(offer)

\* ---------------------------------------- claims on the Inventory payload

\* C15: after an Inventory is built from a payload, the payload dict holds
\* what it held when it was passed in.
C15_PayloadUnchanged ==
    inventory.pc \in {"built", "raised"} => payload = payload0

\* the list without the repeats that directly follow an element
RECURSIVE Runs(_)
Runs(list) ==
    IF Len(list) < 2 THEN list
    ELSE IF list[1] = list[2] THEN Runs(Tail(list))
    ELSE <<list[1]>> \o Runs(Tail(list))

\* the item carries the identity of the asset record
SameIdentity(item, asset) ==
    /\ item.asset_id = asset.assetid
    /\ item.app_id = asset.appid
    /\ item.class_id = asset.classid
    /\ item.instance_id = asset.instanceid
    /\ item.amount = int(asset.amount)
    /\ item.asset = Asset(asset)

\* C16: the Items of a built Inventory come asset by asset, in the order of
\* the payload's assets, and each carries the id, app_id, class_id, instance_id
\* and amount of the asset record it was built from, also when several assets
\* share one description.
C16_ItemsKeepAssetIdentity ==
    (inventory.pc = "built" /\ inventory.last.op = "none") =>
        /\ Runs(AssetIds(inventory.items))
              = [i \in DOMAIN payload0.assets |-> payload0.assets[i].assetid]
        /\ \A k \in DOMAIN inventory.items :
              \E i \in DOMAIN payload0.assets :
                  SameIdentity(inventory.items[k], payload0.assets[i])

\* a built Inventory with the Items of two assets made of one description
C16_Witness ==
    /\ inventory.pc = "built"
    /\ inventory.last.op = "none"
    /\ \E k, l \in DOMAIN inventory.items :
          /\ inventory.items[k].ref # 0
          /\ inventory.items[k].ref = inventory.items[l].ref
          /\ inventory.items[k].asset_id # inventory.items[l].asset_id

\* ------------------------------------------- claims on update and its parts

\* the step in which an await of t's update raises
UpdateFails(t) ==
    tasks[t].op = "update" /\ Awaiting(t) /\ tasks'[t].pc = "raised"

\* the scalar fields and both item lists of o are those of the payload data
Refreshed(o, data) ==
    /\ o = TradeOffer_update(o, data)
    /\ o.items_to_give \in Resolved(data, "items_to_receive")
    /\ o.items_to_receive \in Resolved(data, "items_to_give")

\* C17: an update that fails or is cancelled at one of its awaits leaves the
\* offer either as it was when update was called or refreshed in all its
\* fields, never refreshed in part.
C17_FailedUpdateAllOrNothing ==
    [][\A t \in TaskIds :
          UpdateFails(t) =>
              \/ offer' = tasks[t].before[1]
              \/ /\ tasks[t].data # None
                 /\ Refreshed(offer', tasks[t].data[1])]_vars

\* C18: items_to_give is resolved from the items_to_give stubs of the payload
\* with the id of the client user, items_to_receive from its items_to_receive
\* stubs with the id of the partner, and a side the payload omits is an empty
\* list.
C18_SidesResolvedFromOwnStubs ==
    /\ \A t \in TaskIds :
          /\ tasks[t].pc = "fetch_give" =>
                /\ Has(offer._data, "items_to_give")
                /\ tasks[t].assets = offer._data.items_to_give
                /\ tasks[t].user_id64 = ClientUser.id64
          /\ tasks[t].pc = "fetch_receive" =>
                /\ Has(offer._data, "items_to_receive")
                /\ tasks[t].assets = offer._data.items_to_receive
                /\ tasks[t].user_id64 = offer.partner[1].id64
    /\ (ready /\ calls = 0) =>
          /\ ~Has(offer._data, "items_to_give") => offer.items_to_give = <<>>
          /\ ~Has(offer._data, "items_to_receive") =>
                offer.items_to_receive = <<>>

\* ------------------------------------------------- claims on overlapping calls

\* C19: of two calls of accept, decline or cancel that overlap on one Active
\* offer, at most one issues its request: the two never both wait for the
\* answer to a request.
C19_OneRequestPerOverlap ==
    \A t, u \in TaskIds :
        (t # u /\ tasks[t].op \in ActionOps /\ tasks[u].op \in ActionOps) =>
            ~(tasks[t].pc = "request" /\ tasks[u].pc = "request")

\* ------------------------------------------------- claims on the state machine

Absorbing == {"Accepted", "Declined", "Canceled"}

\* the step in which t's update returns
UpdateReturns(t) ==
    tasks[t].op = "update" /\ Awaiting(t) /\ tasks'[t].pc = "returned"

\* C20: when the calls follow one another, the state of the offer changes
\* only in the step in which a request of accept, decline or cancel returns
\* or an update returns; a call of accept, decline or cancel on an Accepted,
\* Declined or Canceled offer raises and changes nothing; and no more than
\* one event is dispatched without an update in between.
C20_StateChangesOnlyBySuccess ==
    [][/\ offer'.state # offer.state =>
            \E t \in TaskIds :
                \/ \E op \in ActionOps : ReturnStep(t, op)
                \/ UpdateReturns(t)
       /\ \A t \in TaskIds, op \in ActionOps :
            /\ (CallStep(t, op) /\ offer.state \in Absorbing) =>
                  (tasks'[t].pc = "raised" /\ offer' = offer /\ events' = events)
            /\ ReturnStep(t, op) =>
                  (offer.state \notin Absorbing /\ offer'.state \in Absorbing)
       /\ emitted' <= 1]_vars

\* after an event, a further call of accept, decline or cancel has raised on
\* the offer in its absorbing state
C20_Witness ==
    /\ emitted = 1
    /\ Len(events) = 1
    /\ offer.state \in Absorbing
    /\ \E t \in TaskIds :
          /\ tasks[t].op \in ActionOps
          /\ tasks[t].pc = "raised"
          /\ tasks[t].err # None /\ tasks[t].err[1].cls = "ClientException"

====
